---- MODULE Spec2Model ----
(***************************************************************************)
(* Model of agent/data/instruction_example.py: construct_game_examples,    *)
(* the single pass that segments the recorded action log of one game into  *)
(* instruction examples and a ledger of card-set events.                   *)
(***************************************************************************)
EXTENDS Integers, Sequences, FiniteSets, TLC

(* ------------------------------ bounds -------------------------------- *)
MaxLen == 6
MaxMoves == 3
MaxEndTurns == 2
MaxInstructions == 2
MaxFinish == 2
MaxCap == 1

(* --------------------------- program constants ------------------------ *)
StepsPerTurn == 10
InitialBufferSize == 0
InitialLeaderTurnIdx == 0

VARIABLES
    log,                          \* game.get_actions()
    world,                        \* the game engine's current state while the log is recorded
    pc,                           \* position of construct_game_examples
    max_instruction_index,        \* argument
    leader_actions,               \* game.get_leader_actions()
    segmented_actions,
    instructions,
    game_examples,
    all_sets,
    current_leader_turn_idx,
    num_steps_remaining,
    buffer_size,
    current_observation,
    i,                            \* index of the outer loop (0-based, as in the code)
    pos,                          \* number of actions of segmented_seq already handled
    follower_action_sequence,
    current_leader_actions_dict,
    current_sets,
    following,
    initial_num_steps_remaining,
    initial_buffer_size,
    result,                       \* what the call returned, None until it returns
    error,                        \* the exception that ended the call, None if none did
    state_deltas,                 \* follower positions of an example's get_state_deltas()
    qpc,                          \* position of the trajectory query being made
    include_start,                \* argument of get_visited_positions
    start_idx,                    \* argument of get_visited_positions
    weight_by_time,               \* argument of get_correct_trajectory_distribution
    cursor,                       \* number of elements the query's loop has handled
    original_position,
    has_moved,
    pos_list,
    correct_trajectory,           \* the elements of the list the loop has still to visit
    weight_per_hex,
    distribution,
    visited                       \* what get_visited_positions returned, as a set

scan == <<log, world, pc, max_instruction_index, leader_actions, segmented_actions,
          instructions, game_examples, all_sets, current_leader_turn_idx,
          num_steps_remaining, buffer_size, current_observation, i, pos,
          follower_action_sequence, current_leader_actions_dict, current_sets,
          following, initial_num_steps_remaining, initial_buffer_size, result, error>>
query == <<state_deltas, qpc, include_start, start_idx, weight_by_time, cursor,
           original_position, has_moved, pos_list, correct_trajectory, weight_per_hex,
           distribution, visited>>
vars == <<scan, query>>

globals == <<game_examples, all_sets, current_leader_turn_idx, num_steps_remaining,
             buffer_size, current_observation>>
locals == <<follower_action_sequence, current_leader_actions_dict, current_sets,
            following, initial_num_steps_remaining, initial_buffer_size>>
inputs == <<log, world, max_instruction_index, leader_actions>>
presegmented == <<segmented_actions, instructions>>

None == "None"
Min(a, b) == IF a < b THEN a ELSE b

(* ------------------------------ data model ---------------------------- *)
\* A snapshot: where the two players stand and which cards lie on the board.
Snapshot(f, l, cards) == [follower |-> f, leader |-> l, cards |-> cards]
NoSnapshot == [follower |-> -1, leader |-> -1, cards |-> {}]
InitialWorld == Snapshot(0, 0, {0, 1})

\* Both players walk forward along their own track.  Stepping on a hex that
\* completes a set (the odd hexes of the leader's track, the even ones of the
\* follower's) removes the oldest card and deals a new one.
CompletesSet(agent, hex) ==
    IF agent = "LEADER" THEN hex % 2 = 1 ELSE hex % 2 = 0

Moved(w, agent) ==
    LET f == IF agent = "FOLLOWER" THEN w.follower + 1 ELSE w.follower
        l == IF agent = "LEADER" THEN w.leader + 1 ELSE w.leader
        hex == IF agent = "FOLLOWER" THEN f ELSE l
    IN Snapshot(f, l, IF CompletesSet(agent, hex) THEN {c + 1 : c \in w.cards} ELSE w.cards)

MovementAction(agent, prior, posterior) ==
    [type |-> "Movement", agent |-> agent, prior |-> prior, posterior |-> posterior,
     action |-> "MF", completed |-> FALSE, tokens |-> <<>>]
EndTurnAction(agent) ==
    [type |-> "EndTurn", agent |-> agent, prior |-> NoSnapshot, posterior |-> NoSnapshot,
     action |-> None, completed |-> FALSE, tokens |-> <<>>]
InstructionAction(completed, tokens) ==
    [type |-> "Instruction", agent |-> "LEADER", prior |-> NoSnapshot, posterior |-> NoSnapshot,
     action |-> None, completed |-> completed, tokens |-> tokens]
FinishCommandAction(prior) ==
    [type |-> "FinishCommand", agent |-> "FOLLOWER", prior |-> prior, posterior |-> NoSnapshot,
     action |-> None, completed |-> FALSE, tokens |-> <<>>]

IsMovement(a) == a.type = "Movement"
IsFollowerMovement(a) == a.type = "Movement" /\ a.agent = "FOLLOWER"
IsLeaderMovement(a) == a.type = "Movement" /\ a.agent = "LEADER"
IsEndTurn(a) == a.type = "EndTurn"
IsCompletedInstruction(a) == a.type = "Instruction" /\ a.completed
IsFinishCommand(a) == a.type = "FinishCommand"

CountIf(s, P(_)) == Len(SelectSeq(s, P))

RECURSIVE SetToSeq(_)
SetToSeq(S) ==
    IF S = {} THEN <<>>
    ELSE LET m == CHOOSE x \in S : \A y \in S : x <= y
         IN <<m>> \o SetToSeq(S \ {m})

(* ------------------- collaborators outside this file ------------------ *)
\* state_delta.set_difference: None when the collections are identical,
\* otherwise (removed, added).
set_difference(before, after) ==
    IF before = after THEN None
    ELSE <<SetToSeq(before \ after), SetToSeq(after \ before)>>

\* The facts a snapshot reveals.
Facts(s) ==
    {<<"follower", s.follower>>, <<"leader", s.leader>>} \cup {<<"card", c>> : c \in s.cards}

\* partial_observation.update_observation: what was known plus what the
\* snapshot reveals.
update_observation(observation, s) == observation \cup Facts(s)

\* game.get_first_partial_observation()
FirstObservation == Facts(InitialWorld)

\* The candidate values of game.get_leader_actions() for a log: one list of
\* leader actions (Movements and completed Instructions) for each leader turn.
\* Either every leader action counts, or only those made after the follower
\* started to move in the current instruction.
IsLeaderAction(a) == IsLeaderMovement(a) \/ IsCompletedInstruction(a)

RECURSIVE LeaderTurns(_, _, _, _)
LeaderTurns(rest, turns, isFollowing, onlyFollowing) ==
    IF rest = <<>> THEN turns
    ELSE LET a == Head(rest)
             n == Len(turns)
         IN IF IsEndTurn(a) /\ a.agent = "LEADER"
              THEN LeaderTurns(Tail(rest), Append(turns, <<>>), isFollowing, onlyFollowing)
            ELSE IF IsLeaderAction(a) /\ (isFollowing \/ ~onlyFollowing)
              THEN LeaderTurns(Tail(rest), [turns EXCEPT ![n] = Append(@, a)],
                               isFollowing, onlyFollowing)
            ELSE LeaderTurns(Tail(rest), turns,
                             IF IsFinishCommand(a) THEN FALSE
                             ELSE IF IsFollowerMovement(a) THEN TRUE ELSE isFollowing,
                             onlyFollowing)

GroundTruths(l) == {LeaderTurns(l, <<<<>>>>, FALSE, TRUE), LeaderTurns(l, <<<<>>>>, FALSE, FALSE)}

(* ------------------------ recording the action log -------------------- *)
NumMovements(l) == CountIf(l, IsMovement)
NumEndTurns(l) == CountIf(l, IsEndTurn)
IsInstruction(a) == a.type = "Instruction"
NumInstructions(l) == CountIf(l, IsInstruction)
NumFinish(l) == CountIf(l, IsFinishCommand)

Recording == pc = "record" /\ Len(log) < MaxLen

unscanned == <<pc, max_instruction_index, leader_actions, presegmented, globals, locals,
               i, pos, result, error>>

RecordMovement(agent) ==
    /\ Recording
    /\ NumMovements(log) < MaxMoves
    /\ world' = Moved(world, agent)
    /\ log' = Append(log, MovementAction(agent, world, world'))
    /\ UNCHANGED <<unscanned, query>>

RecordEndTurn(agent) ==
    /\ Recording
    /\ NumEndTurns(log) < MaxEndTurns
    /\ log' = Append(log, EndTurnAction(agent))
    /\ UNCHANGED <<world, unscanned, query>>

RecordInstruction(completed) ==
    /\ Recording
    /\ NumInstructions(log) < MaxInstructions
    /\ log' = Append(log, InstructionAction(completed, <<NumInstructions(log)>>))
    /\ UNCHANGED <<world, unscanned, query>>

RecordFinishCommand ==
    /\ Recording
    /\ NumFinish(log) < MaxFinish
    /\ log' = Append(log, FinishCommandAction(world))
    /\ UNCHANGED <<world, unscanned, query>>

(* ----------------------- construct_game_examples ---------------------- *)
\* The first loop: cut the log after every FinishCommand and collect the
\* completed instructions.
RECURSIVE SegmentFrom(_, _, _, _)
SegmentFrom(rest, current_action_sequence, segs, instrs) ==
    IF rest = <<>> THEN [segmented_actions |-> segs, instructions |-> instrs]
    ELSE LET action == Head(rest)
             cur == Append(current_action_sequence, action)
         IN IF IsFinishCommand(action)
              THEN SegmentFrom(Tail(rest), <<>>, Append(segs, cur), instrs)
            ELSE IF IsCompletedInstruction(action)
              THEN SegmentFrom(Tail(rest), cur, segs, Append(instrs, action))
            ELSE SegmentFrom(Tail(rest), cur, segs, instrs)

SegmentLog(l) == SegmentFrom(l, <<>>, <<>>, <<>>)

\* assert len(instructions) == len(segmented_actions) or ... - 1
CountAssertion(numInstructions, numSegments) ==
    numInstructions = numSegments \/ numInstructions = numSegments - 1

\* The call: arguments are bound, the log is segmented, the count is
\* asserted and the accumulators of the pass are initialised.
Start(m, gt) ==
    /\ pc = "record"
    /\ max_instruction_index' = m
    /\ leader_actions' = gt
    /\ LET seg == SegmentLog(log)
       IN /\ segmented_actions' = seg.segmented_actions
          /\ instructions' = seg.instructions
          /\ IF CountAssertion(Len(seg.instructions), Len(seg.segmented_actions))
               THEN pc' = "loop" /\ error' = error
               ELSE pc' = "aborted" /\ error' = "AssertionError:176"
    /\ UNCHANGED <<log, world, globals, locals, i, pos, result, query>>

\* for i, segmented_seq in enumerate(segmented_actions): the per-run locals.
BeginRun ==
    /\ pc = "loop"
    /\ i < Len(segmented_actions)
    /\ follower_action_sequence' = <<>>
    /\ current_leader_actions_dict' = <<>>
    /\ current_sets' = <<>>
    /\ following' = FALSE
    /\ initial_num_steps_remaining' = num_steps_remaining
    /\ initial_buffer_size' = buffer_size
    /\ pos' = 0
    /\ pc' = "run"
    /\ UNCHANGED <<query, inputs, presegmented, globals, i, result, error>>

segmented_seq == segmented_actions[i + 1]
InRun == pc = "run" /\ pos < Len(segmented_seq)
action == segmented_seq[pos + 1]

\* current_leader_actions_dict with a bucket for turn t (created when absent).
WithBucket(dict, t) == IF t \in DOMAIN dict THEN dict ELSE (t :> <<>>) @@ dict
AppendToBucket(dict, t, a) == [WithBucket(dict, t) EXCEPT ![t] = Append(@, a)]

SetInstrIdx_current(idx, isFollowing) == idx

LeaderBuckets_always(dict, t, a, isFollowing) == AppendToBucket(dict, t, a)

\* The bucket mapping after a leader Movement or a completed Instruction in turn t
LeaderBuckets(dict, t, a, isFollowing) ==
    IF isFollowing THEN AppendToBucket(dict, t, a) ELSE dict

LocalSetsAfter_always(sets, set_result, isFollowing) == Append(sets, set_result)

\* current_sets after a Movement that made a set
LocalSetsAfter(sets, set_result, isFollowing) ==
    IF isFollowing THEN Append(sets, set_result) ELSE sets

\* set_instr_idx = i if following else i - 1
SetInstrIdx(idx, isFollowing) == IF isFollowing THEN idx ELSE idx - 1

ObservationAfter_prior(observation, movement) ==
    update_observation(observation, movement.prior)

\* current_observation after a Movement
ObservationAfter(observation, movement) ==
    update_observation(observation, movement.posterior)

\* The part of the Movement branch shared by both agents: set detection and
\* the update of the observation, with `following` as the branch above left it.
MovementTail(isFollowing) ==
    LET set_result == set_difference(action.prior.cards, action.posterior.cards)
    IN /\ IF set_result # None
            THEN /\ all_sets' = Append(all_sets, <<SetInstrIdx(i, isFollowing),
                                                   set_result[1], set_result[2]>>)
                 /\ current_sets' = LocalSetsAfter(current_sets, set_result, isFollowing)
            ELSE UNCHANGED <<all_sets, current_sets>>
       /\ current_observation' = ObservationAfter(current_observation, action)

AppendTriple_prepend(sequence, state, agentAction, observation) ==
    <<[state |-> state, action |-> agentAction, observation |-> observation]>> \o sequence

\* follower_action_sequence.append((state, agent action, current_observation))
AppendTriple(sequence, state, agentAction, observation) ==
    Append(sequence, [state |-> state, action |-> agentAction, observation |-> observation])

StepsAfterMovement_once(steps, wasFollowing) == IF wasFollowing THEN steps ELSE steps - 1

\* num_steps_remaining after a follower Movement
StepsAfterMovement(steps, wasFollowing) == steps - 1

CaptureAtFirstMove_every(stored, current, wasFollowing) == current

\* A starting counter after a follower Movement: taken when following flips
CaptureAtFirstMove(stored, current, wasFollowing) ==
    IF ~wasFollowing THEN current ELSE stored

FollowerMovement ==
    /\ InRun
    /\ IsFollowerMovement(action)
    /\ follower_action_sequence' =
           AppendTriple(follower_action_sequence, action.prior, action.action,
                        current_observation)
    /\ initial_num_steps_remaining' =
           CaptureAtFirstMove(initial_num_steps_remaining, num_steps_remaining, following)
    /\ initial_buffer_size' = CaptureAtFirstMove(initial_buffer_size, buffer_size, following)
    /\ following' = TRUE
    /\ num_steps_remaining' = StepsAfterMovement(num_steps_remaining, following)
    /\ MovementTail(TRUE)
    /\ pos' = pos + 1
    /\ UNCHANGED <<query, inputs, presegmented, pc, i, result, error, game_examples,
                   current_leader_turn_idx, buffer_size, current_leader_actions_dict>>

LeaderMovement ==
    /\ InRun
    /\ IsLeaderMovement(action)
    /\ current_leader_actions_dict' =
           LeaderBuckets(current_leader_actions_dict, current_leader_turn_idx, action,
                         following)
    /\ MovementTail(following)
    /\ pos' = pos + 1
    /\ UNCHANGED <<query, inputs, presegmented, pc, i, result, error, game_examples,
                   current_leader_turn_idx, num_steps_remaining, buffer_size,
                   follower_action_sequence, following, initial_num_steps_remaining,
                   initial_buffer_size>>

StepsAfterEndTurn_keep(steps) == steps

\* num_steps_remaining after a follower EndTurn
StepsAfterEndTurn(steps) == StepsPerTurn

FollowerEndTurn ==
    /\ InRun
    /\ IsEndTurn(action) /\ action.agent = "FOLLOWER"
    /\ num_steps_remaining' = StepsAfterEndTurn(num_steps_remaining)
    /\ pos' = pos + 1
    /\ UNCHANGED <<query, inputs, presegmented, pc, i, result, error, game_examples, all_sets,
                   current_leader_turn_idx, buffer_size, current_observation, locals>>

EndTurnBuckets_none(dict, t, isFollowing) == dict

\* The bucket mapping after a leader EndTurn in turn t
EndTurnBuckets(dict, t, isFollowing) == IF isFollowing THEN WithBucket(dict, t) ELSE dict

TurnAfterEndTurn_twice(t) == t + 2

\* current_leader_turn_idx after a leader EndTurn
TurnAfterEndTurn(t) == t + 1

LeaderEndTurn ==
    /\ InRun
    /\ IsEndTurn(action) /\ action.agent = "LEADER"
    /\ current_leader_actions_dict' =
           EndTurnBuckets(current_leader_actions_dict, current_leader_turn_idx, following)
    /\ current_leader_turn_idx' = TurnAfterEndTurn(current_leader_turn_idx)
    /\ pos' = pos + 1
    /\ UNCHANGED <<query, inputs, presegmented, pc, i, result, error, game_examples, all_sets,
                   num_steps_remaining, buffer_size, current_observation,
                   follower_action_sequence, current_sets, following,
                   initial_num_steps_remaining, initial_buffer_size>>

BufferAfterInstruction_following(size, isFollowing) ==
    IF isFollowing THEN size + 1 ELSE size

\* buffer_size after a completed Instruction
BufferAfterInstruction(size, isFollowing) == size + 1

CompletedInstruction ==
    /\ InRun
    /\ IsCompletedInstruction(action)
    /\ current_leader_actions_dict' =
           LeaderBuckets(current_leader_actions_dict, current_leader_turn_idx, action,
                         following)
    /\ buffer_size' = BufferAfterInstruction(buffer_size, following)
    /\ pos' = pos + 1
    /\ UNCHANGED <<query, inputs, presegmented, pc, i, result, error, game_examples, all_sets,
                   current_leader_turn_idx, num_steps_remaining, current_observation,
                   follower_action_sequence, current_sets, following,
                   initial_num_steps_remaining, initial_buffer_size>>

\* An Instruction that is not completed matches no branch.
IncompleteInstruction ==
    /\ InRun
    /\ IsInstruction(action) /\ ~action.completed
    /\ pos' = pos + 1
    /\ UNCHANGED <<query, inputs, presegmented, pc, i, result, error, globals, locals>>

STOP == "STOP"

BufferAfterFinish_idle(size, isFollowing) == IF isFollowing THEN size ELSE size - 1

\* buffer_size after a FinishCommand
BufferAfterFinish(size, isFollowing) == size - 1

CaptureAtFinish_after(stored, current, isFollowing) ==
    IF ~isFollowing THEN current - 1 ELSE stored

\* initial_buffer_size after a FinishCommand, from buffer_size as it is on entry
CaptureAtFinish(stored, current, isFollowing) ==
    IF ~isFollowing THEN current ELSE stored

FinalTriple_none(seq, a, obs) == seq

\* follower_action_sequence after a FinishCommand
FinalTriple(seq, a, obs) == AppendTriple(seq, a.prior, STOP, obs)

FinishCommand ==
    /\ InRun
    /\ IsFinishCommand(action)
    /\ initial_buffer_size' = CaptureAtFinish(initial_buffer_size, buffer_size, following)
    /\ buffer_size' = BufferAfterFinish(buffer_size, following)
    /\ follower_action_sequence' =
           FinalTriple(follower_action_sequence, action, current_observation)
    /\ pos' = pos + 1
    /\ UNCHANGED <<query, inputs, presegmented, pc, i, result, error, game_examples, all_sets,
                   current_leader_turn_idx, num_steps_remaining, current_observation,
                   current_leader_actions_dict, current_sets, following,
                   initial_num_steps_remaining>>

\* min / max of the keys of the bucket mapping
MinKey(dict) == CHOOSE t \in DOMAIN dict : \A u \in DOMAIN dict : t <= u
MaxKey(dict) == CHOOSE t \in DOMAIN dict : \A u \in DOMAIN dict : t >= u

\* leader_actions_to_pass: one entry per index from the least to the greatest key
Densify(dict) ==
    IF DOMAIN dict = {} THEN <<>>
    ELSE [j \in 1 .. (MaxKey(dict) - MinKey(dict) + 1) |->
             IF (MinKey(dict) + j - 1) \in DOMAIN dict
             THEN dict[MinKey(dict) + j - 1] ELSE <<>>]

FirstLeaderTurnIdx(dict, turnIdx) == IF DOMAIN dict = {} THEN turnIdx ELSE MinKey(dict)

\* s[a:b] of Python for 0 <= a <= b
Slice(s, a, b) ==
    LET lo == Min(a, Len(s))
        hi == Min(b, Len(s))
    IN [j \in 1 .. (hi - lo) |-> s[lo + j]]

GroundTruthAssertion_lengths(from_game_actions, leader_actions_to_pass) ==
    Len(from_game_actions) = Len(leader_actions_to_pass)

\* assert from_game_actions == leader_actions_to_pass
GroundTruthAssertion(from_game_actions, leader_actions_to_pass) ==
    from_game_actions = leader_actions_to_pass

\* if len(game_examples) >= max_instruction_index >= 0: break
CapReached(numExamples, m) == numExamples >= m /\ m >= 0

\* The end of the body of the outer loop: the buckets are densified and
\* checked against the ground truth, the example is built and appended, and
\* the cap is tested.
CloseRun ==
    /\ pc = "run"
    /\ pos = Len(segmented_seq)
    /\ LET leader_actions_to_pass == Densify(current_leader_actions_dict)
           first_leader_turn_idx ==
               FirstLeaderTurnIdx(current_leader_actions_dict, current_leader_turn_idx)
           from_game_actions ==
               Slice(leader_actions, first_leader_turn_idx,
                     first_leader_turn_idx + Len(leader_actions_to_pass))
       IN IF ~GroundTruthAssertion(from_game_actions, leader_actions_to_pass)
            THEN /\ pc' = "aborted"
                 /\ error' = "AssertionError:260"
                 /\ UNCHANGED <<game_examples, i, pos>>
          ELSE IF i >= Len(instructions)
            THEN /\ pc' = "aborted"                        \* instructions[i]
                 /\ error' = "IndexError:263"
                 /\ UNCHANGED <<game_examples, i, pos>>
          ELSE /\ error' = error
               /\ game_examples' =
                      Append(game_examples,
                             [instruction |-> instructions[i + 1].tokens,
                              target_action_sequence |-> follower_action_sequence,
                              example_idx_in_interaction |-> i,
                              leader_actions |-> leader_actions_to_pass,
                              index_of_first_leader_turn |-> first_leader_turn_idx,
                              sets_made_during_instruction |-> current_sets,
                              number_of_steps_in_first_turn |-> initial_num_steps_remaining,
                              number_of_instructions_when_starting |-> initial_buffer_size])
               /\ IF CapReached(Len(game_examples'), max_instruction_index)
                    THEN pc' = "break" /\ i' = i /\ pos' = pos
                    ELSE pc' = "loop" /\ i' = i + 1 /\ pos' = 0
    /\ UNCHANGED <<query, inputs, presegmented, all_sets, current_leader_turn_idx,
                   num_steps_remaining, buffer_size, current_observation, locals,
                   result>>

\* return game_examples, all_sets
Return ==
    /\ \/ pc = "loop" /\ i >= Len(segmented_actions)
       \/ pc = "break"
    /\ result' = [game_examples |-> game_examples, all_sets |-> all_sets]
    /\ pc' = "returned"
    /\ UNCHANGED <<query, inputs, presegmented, globals, locals, i, pos, error>>

ScanInit ==
    /\ log = <<>>
    /\ world = InitialWorld
    /\ pc = "record"
    /\ max_instruction_index = -1
    /\ leader_actions = <<>>
    /\ segmented_actions = <<>>
    /\ instructions = <<>>
    /\ game_examples = <<>>
    /\ all_sets = <<>>
    /\ current_leader_turn_idx = InitialLeaderTurnIdx
    /\ num_steps_remaining = StepsPerTurn
    /\ buffer_size = InitialBufferSize
    /\ current_observation = FirstObservation
    /\ i = 0
    /\ pos = 0
    /\ follower_action_sequence = <<>>
    /\ current_leader_actions_dict = <<>>
    /\ current_sets = <<>>
    /\ following = FALSE
    /\ initial_num_steps_remaining = StepsPerTurn
    /\ initial_buffer_size = InitialBufferSize
    /\ result = None
    /\ error = None

\* No trajectory query is made while the examples are being constructed.
QueryIdle ==
    /\ state_deltas = <<>>
    /\ qpc = "idle"
    /\ include_start = TRUE
    /\ start_idx = 0
    /\ weight_by_time = FALSE
    /\ cursor = 0
    /\ original_position = None
    /\ has_moved = FALSE
    /\ pos_list = <<>>
    /\ correct_trajectory = {}
    /\ weight_per_hex = None
    /\ distribution = None
    /\ visited = None

Init == ScanInit /\ QueryIdle

Next ==
    \/ \E agent \in {"FOLLOWER", "LEADER"} : RecordMovement(agent)
    \/ \E agent \in {"FOLLOWER", "LEADER"} : RecordEndTurn(agent)
    \/ \E completed \in BOOLEAN : RecordInstruction(completed)
    \/ RecordFinishCommand
    \/ \E m \in -1 .. MaxCap, gt \in GroundTruths(log) : Start(m, gt)
    \/ BeginRun
    \/ FollowerMovement
    \/ LeaderMovement
    \/ FollowerEndTurn
    \/ LeaderEndTurn
    \/ CompletedInstruction
    \/ IncompleteInstruction
    \/ FinishCommand
    \/ CloseRun
    \/ Return

Spec == Init /\ [][Next]_vars

(* ----------------------- the trajectory query layer -------------------- *)
\* The derived views of InstructionExample are functions of the follower
\* positions along the example's trajectory.  They are checked on every path
\* over a small grid, paths that come back to a hex included.
GridWidth == 3
GridDepth == 1
MaxPathLen == 4

Position(x, y) == [x |-> x, y |-> y]
Grid == {Position(x, y) : x \in 0 .. (GridWidth - 1), y \in 0 .. (GridDepth - 1)}
Paths == UNION {[1 .. n -> Grid] : n \in 1 .. MaxPathLen}

Range(s) == {s[j] : j \in 1 .. Len(s)}

\* Exact fractions <<numerator, denominator>> in lowest terms.
RECURSIVE GCD(_, _)
GCD(a, b) == IF b = 0 THEN a ELSE GCD(b, a % b)
Frac(n, d) == <<n \div GCD(n, d), d \div GCD(n, d)>>
FracAdd(a, b) == Frac(a[1] * b[2] + b[1] * a[2], a[2] * b[2])
Zero == Frac(0, 1)
One == Frac(1, 1)

\* list(set([delta.follower.get_position() for delta in self.get_state_deltas()[start_idx:]]))
PositionsFrom(deltas, idx) == Range(Slice(deltas, idx, Len(deltas)))

QueryReady ==
    /\ qpc = "ready"
    /\ state_deltas \in Paths

get_visited_positions(inc, idx) ==
    /\ QueryReady
    /\ include_start' = inc
    /\ start_idx' = idx
    /\ IF inc
         THEN /\ visited' = PositionsFrom(state_deltas, idx)
              /\ qpc' = "returned"
              /\ UNCHANGED <<original_position, has_moved, pos_list, cursor>>
         ELSE IF idx >= Len(state_deltas)
                THEN /\ qpc' = "IndexError:94"
                     /\ UNCHANGED <<original_position, has_moved, pos_list, cursor, visited>>
                ELSE /\ original_position' = state_deltas[idx + 1]
                     /\ pos_list' = <<>>
                     /\ has_moved' = FALSE
                     /\ cursor' = idx
                     /\ qpc' = "visiting"
                     /\ UNCHANGED visited
    /\ UNCHANGED <<scan, state_deltas, weight_by_time, correct_trajectory, weight_per_hex,
                   distribution>>

current_position == state_deltas[cursor + 1]

SkipsPosition_always(current, original, moved) == current = original

\* if current_position == original_position and not has_moved: continue
SkipsPosition(current, original, moved) == current = original /\ ~moved

VisitSkip ==
    /\ qpc = "visiting"
    /\ cursor < Len(state_deltas)
    /\ SkipsPosition(current_position, original_position, has_moved)
    /\ cursor' = cursor + 1
    /\ UNCHANGED <<scan, state_deltas, qpc, include_start, start_idx, weight_by_time,
                   original_position, has_moved, pos_list, correct_trajectory,
                   weight_per_hex, distribution, visited>>

VisitAppend ==
    /\ qpc = "visiting"
    /\ cursor < Len(state_deltas)
    /\ ~SkipsPosition(current_position, original_position, has_moved)
    /\ has_moved' = TRUE
    /\ pos_list' = Append(pos_list, current_position)
    /\ cursor' = cursor + 1
    /\ UNCHANGED <<scan, state_deltas, qpc, include_start, start_idx, weight_by_time,
                   original_position, correct_trajectory, weight_per_hex, distribution,
                   visited>>

VisitReturn ==
    /\ qpc = "visiting"
    /\ cursor = Len(state_deltas)
    /\ visited' = Range(pos_list)
    /\ qpc' = "returned"
    /\ UNCHANGED <<scan, state_deltas, include_start, start_idx, weight_by_time, cursor,
                   original_position, has_moved, pos_list, correct_trajectory,
                   weight_per_hex, distribution>>

get_correct_trajectory_distribution(w) ==
    /\ QueryReady
    /\ weight_by_time' = w
    /\ distribution' = [c \in Grid |-> Zero]
    /\ IF w
         THEN /\ weight_per_hex' = Frac(1, Len(state_deltas))
              /\ cursor' = 0
              /\ qpc' = "adding"
              /\ UNCHANGED correct_trajectory
         ELSE /\ correct_trajectory' = PositionsFrom(state_deltas, 0)
              /\ weight_per_hex' = Frac(1, Cardinality(PositionsFrom(state_deltas, 0)))
              /\ qpc' = "setting"
              /\ UNCHANGED cursor
    /\ UNCHANGED <<scan, state_deltas, include_start, start_idx, original_position,
                   has_moved, pos_list, visited>>

Accumulate_set(old, weight) == weight

\* distribution[0][location.x][location.y] += weight_per_hex
Accumulate(old, weight) == FracAdd(old, weight)

AddWeight ==
    /\ qpc = "adding"
    /\ cursor < Len(state_deltas)
    /\ distribution' =
           [distribution EXCEPT ![current_position] = Accumulate(@, weight_per_hex)]
    /\ cursor' = cursor + 1
    /\ UNCHANGED <<scan, state_deltas, qpc, include_start, start_idx, weight_by_time,
                   original_position, has_moved, pos_list, correct_trajectory,
                   weight_per_hex, visited>>

\* The list made from a set is visited in an order the code does not choose.
SetWeight ==
    /\ qpc = "setting"
    /\ \E location \in correct_trajectory :
          /\ distribution' = [distribution EXCEPT ![location] = weight_per_hex]
          /\ correct_trajectory' = correct_trajectory \ {location}
    /\ UNCHANGED <<scan, state_deltas, qpc, include_start, start_idx, weight_by_time,
                   cursor, original_position, has_moved, pos_list, weight_per_hex,
                   visited>>

ReturnDistribution ==
    /\ qpc \in {"adding", "setting"}
    /\ IF weight_by_time THEN cursor = Len(state_deltas) ELSE correct_trajectory = {}
    /\ qpc' = "returned distribution"
    /\ UNCHANGED <<scan, state_deltas, include_start, start_idx, weight_by_time, cursor,
                   original_position, has_moved, pos_list, correct_trajectory,
                   weight_per_hex, distribution, visited>>

QueryInit ==
    /\ ScanInit
    /\ state_deltas \in Paths
    /\ qpc = "ready"
    /\ include_start = TRUE
    /\ start_idx = 0
    /\ weight_by_time = FALSE
    /\ cursor = 0
    /\ original_position = None
    /\ has_moved = FALSE
    /\ pos_list = <<>>
    /\ correct_trajectory = {}
    /\ weight_per_hex = None
    /\ distribution = None
    /\ visited = None

QueryNext ==
    \/ \E inc \in BOOLEAN, idx \in 0 .. MaxPathLen : get_visited_positions(inc, idx)
    \/ VisitSkip
    \/ VisitAppend
    \/ VisitReturn
    \/ \E w \in BOOLEAN : get_correct_trajectory_distribution(w)
    \/ AddWeight
    \/ SetWeight
    \/ ReturnDistribution

QuerySpec == QueryInit /\ [][QueryNext]_vars

(* ------------------- the log, read without the scan ------------------- *)
Prefix(l, n) == SubSeq(l, 1, n)
NumCompleted(l) == CountIf(l, IsCompletedInstruction)
IsLeaderEndTurn(a) == IsEndTurn(a) /\ a.agent = "LEADER"
IsFollowerEndTurn(a) == IsEndTurn(a) /\ a.agent = "FOLLOWER"

\* The run (0-based) and the leader turn a position of the log lies in, and
\* whether the follower has already moved in that run before the position.
RunOf(p) == NumFinish(Prefix(log, p - 1))
TurnAt(p) == CountIf(Prefix(log, p - 1), IsLeaderEndTurn)
FollowingAt(p) == \E q \in 1 .. (p - 1) : IsFollowerMovement(log[q]) /\ RunOf(q) = RunOf(p)

\* The actions at a set of positions, in log order.
At(S) == LET ps == SetToSeq(S) IN [k \in 1 .. Len(ps) |-> log[ps[k]]]

RECURSIVE Flatten(_)
Flatten(ss) == IF ss = <<>> THEN <<>> ELSE Head(ss) \o Flatten(Tail(ss))

\* How many actions of the log the scan has handled.
RECURSIVE TotalLen(_)
TotalLen(ss) == IF ss = <<>> THEN 0 ELSE Len(Head(ss)) + TotalLen(Tail(ss))
Consumed == TotalLen(Prefix(segmented_actions, i)) + pos

Scanning == pc # "record"
Returned == pc = "returned"
Emitted == IF Returned THEN result.game_examples ELSE <<>>

(* ------------------------------- C1 ----------------------------------- *)
IsStopTriple(t) == t.action = STOP
IsMoveTriple(t) == ~IsStopTriple(t)
PairOf(t) == <<t.state, t.action>>
MovePairs(trajectory) ==
    LET moves == SelectSeq(trajectory, IsMoveTriple)
    IN [k \in 1 .. Len(moves) |-> PairOf(moves[k])]
EmittedPairs(examples) ==
    Flatten([k \in 1 .. Len(examples) |-> MovePairs(examples[k].target_action_sequence)])
FollowerMovePairs(S) ==
    LET moves == At({p \in S : IsFollowerMovement(log[p])})
    IN [k \in 1 .. Len(moves) |-> <<moves[k].prior, moves[k].action>>]

\* C1 as stated: the trajectories of the emitted segments, STOP triples
\* removed, concatenate to the (prior snapshot, move) pairs of ALL follower
\* Movements of the log.
C1_AllFollowerMovementsEmitted ==
    Returned => EmittedPairs(result.game_examples) = FollowerMovePairs(1 .. Len(log))

\* C1 (amended): when the scan returns k segments, their trajectories, STOP
\* triples removed, concatenate in emission order to the (prior snapshot,
\* move) pairs of the follower Movements of the first k FinishCommand-
\* terminated runs, in log order; nothing is dropped, duplicated or reordered
\* within those runs.
C1_EmittedRunsReproduced ==
    Returned =>
        EmittedPairs(result.game_examples) =
            FollowerMovePairs({p \in 1 .. Len(log) : RunOf(p) < Len(result.game_examples)})

C1_Witness ==
    /\ Returned
    /\ Len(result.game_examples) = 2
    /\ \A k \in 1 .. 2 : Len(result.game_examples[k].target_action_sequence) >= 2

(* ------------------------------- C2 ----------------------------------- *)
ScenarioWorld1 == Moved(InitialWorld, "FOLLOWER")
ScenarioWorld2 == Moved(ScenarioWorld1, "LEADER")
ScenarioWorld3 == Moved(ScenarioWorld2, "FOLLOWER")
ScenarioLeaderMove == MovementAction("LEADER", ScenarioWorld1, ScenarioWorld2)
ScenarioInstruction == InstructionAction(TRUE, <<0>>)
ScenarioLog ==
    << MovementAction("FOLLOWER", InitialWorld, ScenarioWorld1),
       ScenarioLeaderMove,
       ScenarioInstruction,
       MovementAction("FOLLOWER", ScenarioWorld2, ScenarioWorld3),
       FinishCommandAction(ScenarioWorld3) >>

ScenarioShape(bucketLen) ==
    /\ Len(result.game_examples) = 1
    /\ Len(result.game_examples[1].target_action_sequence) = 3
    /\ Len(result.game_examples[1].leader_actions) = 1
    /\ Len(result.game_examples[1].leader_actions[1]) = bucketLen
    /\ result.game_examples[1].number_of_steps_in_first_turn = StepsPerTurn
    /\ num_steps_remaining = StepsPerTurn - 2

\* C2 as stated: the scenario log yields one segment, trajectory of length 3,
\* one leader bucket of length 1, steps-remaining from 10 to 8.
C2_ScenarioBucketOfOne == (Returned /\ log = ScenarioLog) => ScenarioShape(1)

\* C2 (amended): the scenario log yields one segment, trajectory of length 3
\* (2 moves + STOP), one leader bucket that holds both the leader's Movement
\* and the completed Instruction (length 2), steps-remaining from 10 to 8.
C2_ScenarioBucketOfTwo ==
    (Returned /\ log = ScenarioLog) =>
        /\ ScenarioShape(2)
        /\ result.game_examples[1].leader_actions[1] = <<ScenarioLeaderMove, ScenarioInstruction>>
        /\ result.game_examples[1].target_action_sequence[3].action = STOP

C2_Witness == Returned /\ log = ScenarioLog /\ Len(result.game_examples) = 1

(* ------------------------------- C3 ----------------------------------- *)
\* The leader-turn buckets of run r, read from the log: the leader actions
\* made in the run after the follower's first Movement, by leader turn, and
\* the turns the run has a bucket for.
InRunFollowing(r) == {p \in 1 .. Len(log) : RunOf(p) = r /\ FollowingAt(p)}
BucketedTurns(r) ==
    {TurnAt(p) : p \in {q \in InRunFollowing(r) : IsLeaderAction(log[q]) \/ IsLeaderEndTurn(log[q])}}
RefBucket(r, t) == At({p \in InRunFollowing(r) : IsLeaderAction(log[p]) /\ TurnAt(p) = t})
SetMin(S) == CHOOSE x \in S : \A y \in S : x <= y
SetMax(S) == CHOOSE x \in S : \A y \in S : x >= y
FinishPosition(r) == CHOOSE p \in 1 .. Len(log) : IsFinishCommand(log[p]) /\ RunOf(p) = r
RefFirst(r) ==
    IF BucketedTurns(r) = {} THEN TurnAt(FinishPosition(r)) ELSE SetMin(BucketedTurns(r))
RefDense(r) ==
    IF BucketedTurns(r) = {} THEN <<>>
    ELSE [j \in 1 .. (SetMax(BucketedTurns(r)) - SetMin(BucketedTurns(r)) + 1) |->
             RefBucket(r, SetMin(BucketedTurns(r)) + j - 1)]
RefMatchesGroundTruth(r) ==
    Slice(leader_actions, RefFirst(r), RefFirst(r) + Len(RefDense(r))) = RefDense(r)

CountViolation ==
    /\ NumCompleted(log) # NumFinish(log)
    /\ NumCompleted(log) # NumFinish(log) - 1

\* The runs whose end of loop body (densify, cross-check, emit) has been reached.
ClosedRuns ==
    IF pc \in {"record", "loop", "run"} THEN 0 .. (i - 1)
    ELSE IF pc = "returned" THEN 0 .. (Len(result.game_examples) - 1)
    ELSE IF error = "AssertionError:176" THEN {}
    ELSE 0 .. i

\* C3: integrity violations are fatal and never produce output: a count
\* violation, or a closed run whose dense bucket list differs from its
\* ground-truth slice, leaves the call aborted with nothing returned; and
\* every segment of a call that returns equals its ground-truth slice.
C3_IntegrityViolationsFatal ==
    /\ (Scanning /\ CountViolation) => pc = "aborted"
    /\ \A r \in ClosedRuns : ~RefMatchesGroundTruth(r) => pc = "aborted"
    /\ pc = "aborted" => result = None
    /\ Returned =>
         \A k \in 1 .. Len(result.game_examples) :
            LET e == result.game_examples[k]
            IN Slice(leader_actions, e.index_of_first_leader_turn,
                     e.index_of_first_leader_turn + Len(e.leader_actions)) = e.leader_actions

C3_Witness ==
    /\ pc = "aborted"
    /\ error = "AssertionError:260"
    /\ Len(game_examples) = 1
    /\ all_sets # <<>>
    /\ result = None

(* ------------------------------- C4 ----------------------------------- *)
\* The log up to and including its last FinishCommand.
TerminatedPart ==
    Prefix(log, SetMax({0} \cup {p \in 1 .. Len(log) : IsFinishCommand(log[p])}))
HasTrailingRun == Len(TerminatedPart) < Len(log)

\* C4 as stated: an unterminated trailing run (also one that holds a completed
\* Instruction with no FinishCommand) after balanced terminated runs does not
\* raise the count failure, and a call that returns uncapped emits one segment
\* per FinishCommand-terminated run.
C4_TrailingRunPermitted ==
    (Scanning /\ HasTrailingRun /\ NumCompleted(TerminatedPart) = NumFinish(TerminatedPart)) =>
        /\ error # "AssertionError:176"
        /\ (Returned /\ max_instruction_index < 0) =>
               Len(result.game_examples) = NumFinish(log)

(* ------------------------------- C5 ----------------------------------- *)
ChangesCards(a) == IsMovement(a) /\ a.prior.cards # a.posterior.cards
\* following, as it stands once the Movement at p has passed the agent branch
FollowingWhenProcessed(p) == FollowingAt(p) \/ IsFollowerMovement(log[p])
RemovedAt(p) == SetToSeq(log[p].prior.cards \ log[p].posterior.cards)
AddedAt(p) == SetToSeq(log[p].posterior.cards \ log[p].prior.cards)
SetEventAt(p) ==
    <<IF FollowingWhenProcessed(p) THEN RunOf(p) ELSE RunOf(p) - 1, RemovedAt(p), AddedAt(p)>>
RefLedger(n) ==
    LET ps == SetToSeq({p \in 1 .. n : ChangesCards(log[p])})
    IN [k \in 1 .. Len(ps) |-> SetEventAt(ps[k])]
RefLocalSets(r, n) ==
    LET ps == SetToSeq({p \in 1 .. n : /\ ChangesCards(log[p])
                                       /\ RunOf(p) = r
                                       /\ FollowingWhenProcessed(p)})
    IN [k \in 1 .. Len(ps) |-> <<RemovedAt(ps[k]), AddedAt(ps[k])>>]

\* C5: the ledger holds exactly one event (tag, removed, added) for each
\* Movement handled so far that changed the cards, in order, tagged with the
\* run i of the Movement if following is true when it is processed and i-1
\* otherwise; the local list of a run holds exactly those of its events made
\* while following; a Movement without a card change adds nothing.
C5_SetEventsTagged ==
    Scanning =>
        /\ all_sets = RefLedger(Consumed)
        /\ pc = "run" => current_sets = RefLocalSets(i, Consumed)
        /\ \A k \in 1 .. Len(game_examples) :
               game_examples[k].sets_made_during_instruction = RefLocalSets(k - 1, Len(log))

C5_Witness ==
    /\ pc = "run"
    /\ i = 1
    /\ Len(all_sets) = 2
    /\ all_sets[1][1] = 0
    /\ all_sets[2][1] = 1
    /\ Len(current_sets) = 1
    /\ Len(follower_action_sequence) = 2

(* ------------------------------- C6 ----------------------------------- *)
HandlerStep == InRun /\ pos' = pos + 1

\* C6 as stated: buffer-size changes by -1 on a FinishCommand, by +1 on a
\* completed Instruction handled while following, and on no other event.
C6_BufferChangesOnlyWhileFollowing ==
    [][ /\ HandlerStep /\ IsFinishCommand(action) => buffer_size' = buffer_size - 1
        /\ HandlerStep /\ IsCompletedInstruction(action) /\ following =>
               buffer_size' = buffer_size + 1
        /\ buffer_size' # buffer_size =>
               /\ HandlerStep
               /\ IsFinishCommand(action) \/ (IsCompletedInstruction(action) /\ following)
      ]_vars

\* C6 (amended): buffer-size changes by -1 on each FinishCommand and by +1
\* on each completed Instruction, whether or not following is true; these
\* are the only events that change it.
C6_BufferChangesOnEveryInstruction ==
    [][ /\ HandlerStep /\ IsFinishCommand(action) => buffer_size' = buffer_size - 1
        /\ HandlerStep /\ IsCompletedInstruction(action) => buffer_size' = buffer_size + 1
        /\ buffer_size' # buffer_size =>
               /\ HandlerStep
               /\ IsFinishCommand(action) \/ IsCompletedInstruction(action)
      ]_vars

C6_Witness ==
    /\ pc = "run"
    /\ pos > 0
    /\ IsCompletedInstruction(segmented_seq[pos])
    /\ ~following
    /\ buffer_size = 1
    /\ i = 1

(* ------------------------------- C7 ----------------------------------- *)
WellFormed ==
    \A p \in 1 .. Len(log) :
        IsFinishCommand(log[p]) =>
            NumCompleted(Prefix(log, p - 1)) > NumFinish(Prefix(log, p - 1))

\* C7: at every point of the scan buffer-size is the number of completed
\* Instructions handled so far minus the number of FinishCommands handled so
\* far, and it is never negative across a well-formed log.
C7_BufferCountsQueued ==
    Scanning =>
        /\ buffer_size = NumCompleted(Prefix(log, Consumed)) - NumFinish(Prefix(log, Consumed))
        /\ WellFormed => buffer_size >= 0

C7_Witness ==
    /\ Returned
    /\ WellFormed
    /\ NumFinish(log) = 2
    /\ Consumed = Len(log)
    /\ buffer_size = 0
    /\ \E p \in 1 .. Len(log) : IsCompletedInstruction(log[p]) /\ FollowingAt(p)

(* ------------------------------- C8 ----------------------------------- *)
\* C8 as stated: a call that returns with cap M >= 0 emitted min(M, number of
\* terminated runs) segments and its ledger ends with the last emitted run;
\* with M < 0 every terminated run is emitted.
C8_CapRespected ==
    Returned =>
        /\ Len(result.game_examples) =
               IF max_instruction_index >= 0
               THEN Min(max_instruction_index, NumFinish(log))
               ELSE NumFinish(log)
        /\ result.all_sets =
               RefLedger(SetMax({0} \cup {p \in 1 .. Len(log) :
                                             /\ IsFinishCommand(log[p])
                                             /\ RunOf(p) < Len(result.game_examples)}))

(* ------------------------------- C9 ----------------------------------- *)
\* The leader turns that ended in run r while following and hold no leader action.
EmptyEndedTurns(r) ==
    {TurnAt(p) : p \in {q \in InRunFollowing(r) : IsLeaderEndTurn(log[q])}}
        \ {TurnAt(p) : p \in {q \in InRunFollowing(r) : IsLeaderAction(log[q])}}

DenseBuckets(e, r) ==
    /\ e.index_of_first_leader_turn = RefFirst(r)
    /\ Len(e.leader_actions) =
           IF BucketedTurns(r) = {} THEN 0
           ELSE SetMax(BucketedTurns(r)) - SetMin(BucketedTurns(r)) + 1
    /\ \A j \in 1 .. Len(e.leader_actions) :
           e.leader_actions[j] = RefBucket(r, e.index_of_first_leader_turn + j - 1)
    /\ \A t \in EmptyEndedTurns(r) :
           /\ t - e.index_of_first_leader_turn + 1 \in 1 .. Len(e.leader_actions)
           /\ e.leader_actions[t - e.index_of_first_leader_turn + 1] = <<>>

\* C9: the bucket list of every emitted segment is dense and ascending: entry
\* j is the bucket of leader turn (first index + j), there is one entry for
\* every index from the lowest to the highest bucketed in the run, a leader
\* turn that ended while following without a leader action is an explicit
\* empty list; and the leader-turn index is the number of leader EndTurns
\* handled so far in the whole log.
C9_BucketsDenseAscending ==
    Scanning =>
        /\ current_leader_turn_idx = CountIf(Prefix(log, Consumed), IsLeaderEndTurn)
        /\ \A k \in 1 .. Len(game_examples) : DenseBuckets(game_examples[k], k - 1)

C9_Witness ==
    /\ Returned
    /\ \E k \in 1 .. Len(result.game_examples) :
          LET e == result.game_examples[k]
          IN /\ Len(e.leader_actions) = 2
             /\ e.leader_actions[1] = <<>>
             /\ e.leader_actions[2] # <<>>
             /\ e.index_of_first_leader_turn = 1

(* ------------------------------- C10 ---------------------------------- *)
\* The positions of the log that put a triple on the trajectory of run r.
TriplePositions(r) ==
    SetToSeq({p \in 1 .. Len(log) :
                 RunOf(p) = r /\ (IsFollowerMovement(log[p]) \/ IsFinishCommand(log[p]))})
RefObservation(p) ==
    FirstObservation \cup
        UNION {Facts(log[q].posterior) : q \in {u \in 1 .. (p - 1) : IsMovement(log[u])}}

Trajectories ==
    [k \in 1 .. Len(game_examples) |-> game_examples[k].target_action_sequence]
        \o (IF pc = "run" THEN <<follower_action_sequence>> ELSE <<>>)

\* C10: the observation of every trajectory triple is the first observation
\* merged with the posterior snapshots of exactly the Movements (of either
\* actor) that precede the triple's action in the log, and it contains the
\* observation of every earlier triple of the game.
C10_ObservationMonotonic ==
    Scanning =>
        /\ \A k \in 1 .. Len(Trajectories) : \A j \in 1 .. Len(Trajectories[k]) :
               Trajectories[k][j].observation = RefObservation(TriplePositions(k - 1)[j])
        /\ LET triples == Flatten(Trajectories)
           IN \A a \in 1 .. Len(triples) : \A b \in a .. Len(triples) :
                  triples[a].observation \subseteq triples[b].observation

C10_Witness ==
    /\ pc = "run"
    /\ Len(game_examples) = 1
    /\ Len(follower_action_sequence) = 1
    /\ <<"leader", 1>> \in follower_action_sequence[1].observation
    /\ <<"follower", 1>> \in follower_action_sequence[1].observation
    /\ <<"follower", 2>> \notin follower_action_sequence[1].observation
    /\ game_examples[1].target_action_sequence[1].observation = FirstObservation

(* ------------------------------- C13 ---------------------------------- *)
PositionOf(a) == CHOOSE p \in 1 .. Len(log) : log[p] = a
LeaderActionsWhileFollowing(r) == At({p \in InRunFollowing(r) : IsLeaderAction(log[p])})
LeaderPositionsBeforeFollowing(r) ==
    {p \in 1 .. Len(log) : RunOf(p) = r /\ ~FollowingAt(p) /\ IsLeaderAction(log[p])}
InBuckets(e, a) ==
    \E j \in 1 .. Len(e.leader_actions) :
        \E n \in 1 .. Len(e.leader_actions[j]) : e.leader_actions[j][n] = a

\* C13: flattening the bucket list of an emitted segment gives exactly the
\* leader Movements and completed Instructions of its run made after the
\* run's first follower Movement, in log order, each in the bucket of the
\* leader turn current when it was made; those made before the first follower
\* Movement are in none of the segment's buckets.
C13_BucketsHoldActionsWhileFollowing ==
    \A k \in 1 .. Len(game_examples) :
        LET e == game_examples[k]
        IN /\ Flatten(e.leader_actions) = LeaderActionsWhileFollowing(k - 1)
           /\ \A j \in 1 .. Len(e.leader_actions) : \A n \in 1 .. Len(e.leader_actions[j]) :
                  TurnAt(PositionOf(e.leader_actions[j][n])) =
                      e.index_of_first_leader_turn + j - 1
           /\ \A p \in LeaderPositionsBeforeFollowing(k - 1) : ~InBuckets(e, log[p])

C13_Witness ==
    /\ Returned
    /\ \E k \in 1 .. Len(result.game_examples) :
          /\ Flatten(result.game_examples[k].leader_actions) # <<>>
          /\ \E p \in LeaderPositionsBeforeFollowing(k - 1) : IsLeaderMovement(log[p])

(* ------------------------------- C14 ---------------------------------- *)
\* The Turn Tracker's counters after the first n actions of the log.
LastFollowerEndTurn(n) == SetMax({0} \cup {p \in 1 .. n : IsFollowerEndTurn(log[p])})
RefSteps(n) ==
    StepsPerTurn -
        Cardinality({p \in (LastFollowerEndTurn(n) + 1) .. n : IsFollowerMovement(log[p])})
RefBuffer(n) == NumCompleted(Prefix(log, n)) - NumFinish(Prefix(log, n))

FollowerMovesOf(r) == {p \in 1 .. Len(log) : RunOf(p) = r /\ IsFollowerMovement(log[p])}
HasFollowerMove(r) == FollowerMovesOf(r) # {}
FirstFollowerMove(r) == SetMin(FollowerMovesOf(r))

\* C14: for a segment whose run has a follower Movement, the stored starting
\* steps-remaining and buffer-size are the counters immediately before the
\* run's first follower Movement is applied, and no later event of the run
\* changes what is stored.
C14_StartCountersAtFirstMove ==
    /\ \A k \in 1 .. Len(game_examples) :
          HasFollowerMove(k - 1) =>
              /\ game_examples[k].number_of_steps_in_first_turn =
                     RefSteps(FirstFollowerMove(k - 1) - 1)
              /\ game_examples[k].number_of_instructions_when_starting =
                     RefBuffer(FirstFollowerMove(k - 1) - 1)
    /\ (pc = "run" /\ following) =>
          /\ initial_num_steps_remaining = RefSteps(FirstFollowerMove(i) - 1)
          /\ initial_buffer_size = RefBuffer(FirstFollowerMove(i) - 1)

C14_Witness ==
    /\ Returned
    /\ \E k \in 1 .. Len(result.game_examples) :
          /\ Cardinality(FollowerMovesOf(k - 1)) = 2
          /\ \E p \in 1 .. Len(log) :
                /\ RunOf(p) = k - 1
                /\ IsFollowerEndTurn(log[p])
                /\ p > FirstFollowerMove(k - 1)
          /\ result.game_examples[k].number_of_instructions_when_starting = 1
          /\ result.game_examples[k].number_of_steps_in_first_turn = StepsPerTurn

(* ------------------------------- C15 ---------------------------------- *)
\* C15 as stated: in a run without follower Movement the FinishCommand first
\* decrements buffer-size and then captures it: the stored starting
\* buffer-size is the buffer-size after the decrement.
C15_CapturedAfterDecrement ==
    \A k \in 1 .. Len(game_examples) :
        ~HasFollowerMove(k - 1) =>
            game_examples[k].number_of_instructions_when_starting =
                RefBuffer(FinishPosition(k - 1))

\* C15 (amended): in a run without follower Movement the FinishCommand
\* captures buffer-size as the segment's starting buffer-size before it
\* decrements it (the stored value is one more than buffer-size after the
\* FinishCommand), and the STOP triple it appends is the whole trajectory.
C15_CapturedBeforeDecrement ==
    /\ \A k \in 1 .. Len(game_examples) :
          ~HasFollowerMove(k - 1) =>
              /\ game_examples[k].number_of_instructions_when_starting =
                     RefBuffer(FinishPosition(k - 1) - 1)
              /\ Len(game_examples[k].target_action_sequence) = 1
              /\ game_examples[k].target_action_sequence[1].action = STOP
    /\ (pc = "run" /\ pos = Len(segmented_seq) /\ ~following) =>
          /\ initial_buffer_size = buffer_size + 1
          /\ Len(follower_action_sequence) = 1
          /\ follower_action_sequence[1].action = STOP

C15_Witness ==
    /\ Returned
    /\ \E k \in 1 .. Len(result.game_examples) :
          /\ ~HasFollowerMove(k - 1)
          /\ result.game_examples[k].number_of_instructions_when_starting = 2

(* ------------------------------- C16 ---------------------------------- *)
\* The greatest number of follower Movements between two follower EndTurns.
AtMostBudgetBetweenEndTurns ==
    \A n \in 0 .. Len(log) : RefSteps(n) >= 0

\* C16: at every point of the scan steps-remaining is 10 minus the number of
\* follower Movements handled since the most recent follower EndTurn (or
\* since the start of the game), whatever runs, leader events, Instructions
\* and FinishCommands lie between; so it stays in 0..10 when the follower
\* makes at most 10 Movements between follower EndTurns.
C16_StepsSinceEndTurn ==
    Scanning =>
        /\ num_steps_remaining = RefSteps(Consumed)
        /\ AtMostBudgetBetweenEndTurns => num_steps_remaining \in 0 .. StepsPerTurn

C16_Witness ==
    /\ pc = "run"
    /\ i = 1
    /\ num_steps_remaining = StepsPerTurn - 1
    /\ Cardinality({p \in 1 .. Consumed : IsFollowerMovement(log[p])}) = 2
    /\ LastFollowerEndTurn(Consumed) > 0

(* ------------------------------- C17 ---------------------------------- *)
\* C17: the trajectory of every emitted segment is nonempty, has one triple
\* per follower Movement of its run plus one, ends with the STOP triple made
\* of the closing FinishCommand's prior snapshot and the observation current
\* at that moment, and has STOP at no other position.
C17_TrajectoryEndsWithStop ==
    \A k \in 1 .. Len(game_examples) :
        LET t == game_examples[k].target_action_sequence
            fin == FinishPosition(k - 1)
        IN /\ Len(t) = Cardinality(FollowerMovesOf(k - 1)) + 1
           /\ t[Len(t)] = [state |-> log[fin].prior, action |-> STOP,
                           observation |-> RefObservation(fin)]
           /\ \A j \in 1 .. (Len(t) - 1) : t[j].action # STOP

C17_Witness ==
    /\ Returned
    /\ Len(result.game_examples) = 2
    /\ Len(result.game_examples[1].target_action_sequence) = 3
    /\ Len(result.game_examples[2].target_action_sequence) = 1
    /\ result.game_examples[1].target_action_sequence[3].observation # FirstObservation

(* ------------------------------- C18 ---------------------------------- *)
Ended == pc \in {"returned", "aborted"}
CompletedInstructions == SelectSeq(log, IsCompletedInstruction)

\* C18 as stated: on a log that passes the count check (as many completed
\* Instructions as terminated runs, or one fewer) and the ground-truth
\* cross-check, an uncapped scan emits one segment per terminated run, in log
\* order, segment i with ordinal i and the tokens of the i-th completed
\* Instruction.
C18_OneSegmentPerRun ==
    ( /\ Ended
      /\ max_instruction_index < 0
      /\ ~CountViolation
      /\ \A r \in 0 .. (NumFinish(log) - 1) : RefMatchesGroundTruth(r) ) =>
        /\ Returned
        /\ Len(result.game_examples) = NumFinish(log)
        /\ \A k \in 1 .. Len(result.game_examples) :
               /\ result.game_examples[k].example_idx_in_interaction = k - 1
               /\ result.game_examples[k].instruction = CompletedInstructions[k].tokens

(* ------------------------------- C19 ---------------------------------- *)
\* C19 as stated: every event of the returned ledger is tagged with the
\* ordinal of an emitted segment.
C19_TagsNameEmittedSegments ==
    Returned =>
        \A n \in 1 .. Len(result.all_sets) :
            result.all_sets[n][1] \in 0 .. (Len(result.game_examples) - 1)

(* ------------------------------- C20 ---------------------------------- *)
TaggedWith(ledger, t) ==
    LET ns == SetToSeq({n \in 1 .. Len(ledger) : ledger[n][1] = t})
    IN [k \in 1 .. Len(ns) |-> <<ledger[ns[k]][2], ledger[ns[k]][3]>>]
\* The set events of run r made before its first follower Movement, among
\* the first n actions of the log.
PreFollowingSets(r, n) ==
    LET ps == SetToSeq({p \in 1 .. n : /\ ChangesCards(log[p])
                                       /\ RunOf(p) = r
                                       /\ ~FollowingWhenProcessed(p)})
    IN [k \in 1 .. Len(ps) |-> <<RemovedAt(ps[k]), AddedAt(ps[k])>>]

\* C20: the ledger is chronological and agrees with the local lists: tags
\* never decrease along the ledger, and the entries tagged i are segment i's
\* local set list, in order, followed only by events of run i+1 made before
\* its first follower Movement.
C20_LedgerChronological ==
    /\ \A a \in 1 .. Len(all_sets) : \A b \in a .. Len(all_sets) :
           all_sets[a][1] <= all_sets[b][1]
    /\ \A k \in 1 .. Len(game_examples) :
           TaggedWith(all_sets, k - 1) =
               game_examples[k].sets_made_during_instruction
                   \o PreFollowingSets(k, Consumed)

C20_Witness ==
    /\ pc = "run"
    /\ i = 1
    /\ Len(game_examples) = 1
    /\ Len(game_examples[1].sets_made_during_instruction) = 1
    /\ Len(TaggedWith(all_sets, 0)) = 2

(* ------------------------------- C11 ---------------------------------- *)
\* The position at index j of the trajectory (0-based, as in the code).
DeltaAt(j) == state_deltas[j + 1]
LeftStartBy(j) == \E m \in start_idx .. j : DeltaAt(m) # DeltaAt(start_idx)

\* C11: without the start, visited-positions returns exactly the positions
\* at the indices j >= start_idx by which the path has left the position at
\* start_idx; so the starting position is returned if and only if the path
\* leaves it and later comes back, and nothing is returned when the follower
\* never leaves it.
C11_StartExcludedUntilLeft ==
    (qpc = "returned" /\ ~include_start) =>
        LET last == Len(state_deltas) - 1
            start == DeltaAt(start_idx)
        IN /\ visited = {DeltaAt(j) : j \in {m \in start_idx .. last : LeftStartBy(m)}}
           /\ (start \in visited) <=>
                  \E a \in start_idx .. last : \E b \in (a + 1) .. last :
                      DeltaAt(a) # start /\ DeltaAt(b) = start
           /\ (\A j \in start_idx .. last : DeltaAt(j) = start) => visited = {}

C11_Witness ==
    /\ qpc = "returned"
    /\ ~include_start
    /\ start_idx = 1
    /\ DeltaAt(start_idx) \in visited
    /\ Cardinality(visited) = 2
    /\ DeltaAt(0) \notin visited

(* ------------------------------- C12 ---------------------------------- *)
TimestepsAt(c) == Cardinality({j \in 1 .. Len(state_deltas) : state_deltas[j] = c})
RECURSIVE FracSum(_, _)
FracSum(f, S) ==
    IF S = {} THEN Zero
    ELSE LET c == CHOOSE c \in S : TRUE
         IN FracAdd(f[c], FracSum(f, S \ {c}))

\* C12: weighted by time, every cell of the grid holds the number of
\* timesteps of the path at that cell over the path length; otherwise each of
\* the k distinct positions of the path holds 1/k and every other cell 0; in
\* both cases the cells sum to 1.
C12_DistributionMass ==
    qpc = "returned distribution" =>
        /\ weight_by_time =>
               \A c \in Grid : distribution[c] = Frac(TimestepsAt(c), Len(state_deltas))
        /\ ~weight_by_time =>
               \A c \in Grid :
                   distribution[c] =
                       IF c \in Range(state_deltas)
                       THEN Frac(1, Cardinality(Range(state_deltas)))
                       ELSE Zero
        /\ FracSum(distribution, Grid) = One

C12_Witness ==
    /\ qpc = "returned distribution"
    /\ weight_by_time
    /\ Len(state_deltas) = 3
    /\ \E c \in Grid : distribution[c] = <<2, 3>>
    /\ state_deltas[1] = state_deltas[3]

(* ------------------------------- C21 ---------------------------------- *)
Keys == DOMAIN current_leader_actions_dict
AtCloseOfRun == pc = "run" /\ pos = Len(segmented_seq)

\* C21: at the close of every run the keys of the bucket mapping are the
\* leader turns in which, while following, the leader acted or ended the
\* turn, and they form an interval of integers: every index between the least
\* and the greatest key is a key.  So the bucket list has as many entries as
\* the mapping has keys and each entry is the bucket stored under its index;
\* none is an empty list inserted for a missing index.
C21_KeysContiguous ==
    AtCloseOfRun =>
        /\ Keys = BucketedTurns(i)
        /\ Keys # {} =>
               \A t \in MinKey(current_leader_actions_dict) ..
                            MaxKey(current_leader_actions_dict) : t \in Keys
        /\ Len(Densify(current_leader_actions_dict)) = Cardinality(Keys)
        /\ \A j \in 1 .. Len(Densify(current_leader_actions_dict)) :
               /\ (MinKey(current_leader_actions_dict) + j - 1) \in Keys
               /\ Densify(current_leader_actions_dict)[j] =
                      current_leader_actions_dict[MinKey(current_leader_actions_dict) + j - 1]

C21_Witness ==
    /\ AtCloseOfRun
    /\ Cardinality(Keys) = 3
    /\ current_leader_actions_dict[MinKey(current_leader_actions_dict) + 1] = <<>>
    /\ current_leader_actions_dict[MaxKey(current_leader_actions_dict)] # <<>>

====
